---------------------------- MODULE Spec2Model ----------------------------
(***************************************************************************)
(* A model of binrchq/mssql-cli: the interactive session loop (CLI.Start), *)
(* the batch accumulator (CLI.readMultiLine over Reader.ReadLine), the     *)
(* command classifier (CLI.handleSpecialCommand, isQuery), the executor    *)
(* (CLI.executeSQL, executeQuery, executeCommand, useDatabase) and the     *)
(* table renderer (CLI.displayTable).                                      *)
(*                                                                         *)
(* Go strings are modelled as sequences of one-character strings, so that  *)
(* trimming, case folding, prefix and suffix tests and joining are         *)
(* computed as the strings package computes them.                          *)
(***************************************************************************)
EXTENDS Naturals, Integers, Sequences, FiniteSets, TLC

(***************************************************************************)
(* The strings package                                                     *)
(***************************************************************************)

\* unicode.IsSpace restricted to the ASCII characters the model's inputs use
WhiteSpace == {" ", "\t", "\n", "\r"}

LowerLetters == <<"a","b","c","d","e","f","g","h","i","j","k","l","m",
                  "n","o","p","q","r","s","t","u","v","w","x","y","z">>
UpperLetters == <<"A","B","C","D","E","F","G","H","I","J","K","L","M",
                  "N","O","P","Q","R","S","T","U","V","W","X","Y","Z">>

\* the case mappings of the ASCII letters
UpperOf ==
    [c \in {LowerLetters[i] : i \in 1..26} |->
        UpperLetters[CHOOSE i \in 1..26 : LowerLetters[i] = c]]
LowerOf ==
    [c \in {UpperLetters[i] : i \in 1..26} |->
        LowerLetters[CHOOSE i \in 1..26 : UpperLetters[i] = c]]

ToUpperChar(c) == IF c \in DOMAIN UpperOf THEN UpperOf[c] ELSE c

ToLowerChar(c) == IF c \in DOMAIN LowerOf THEN LowerOf[c] ELSE c

\* strings.ToUpper
ToUpper(s) == [i \in 1..Len(s) |-> ToUpperChar(s[i])]

\* strings.ToLower
ToLower(s) == [i \in 1..Len(s) |-> ToLowerChar(s[i])]

RECURSIVE TrimLeft(_)
TrimLeft(s) ==
    IF s # <<>> /\ Head(s) \in WhiteSpace THEN TrimLeft(Tail(s)) ELSE s

RECURSIVE TrimRight(_)
TrimRight(s) ==
    IF s # <<>> /\ s[Len(s)] \in WhiteSpace
    THEN TrimRight(SubSeq(s, 1, Len(s) - 1))
    ELSE s

\* strings.TrimSpace
TrimSpace(s) == TrimRight(TrimLeft(s))

\* strings.HasPrefix
HasPrefix(s, p) == Len(s) >= Len(p) /\ SubSeq(s, 1, Len(p)) = p

\* strings.HasSuffix
HasSuffix(s, x) ==
    Len(s) >= Len(x) /\ SubSeq(s, Len(s) - Len(x) + 1, Len(s)) = x

\* strings.TrimSuffix: removes one occurrence of the suffix, if present
TrimSuffix(s, x) ==
    IF HasSuffix(s, x) THEN SubSeq(s, 1, Len(s) - Len(x)) ELSE s

\* strings.Join(lines, "\n")
RECURSIVE JoinLines(_)
JoinLines(ls) ==
    IF ls = <<>> THEN <<>>
    ELSE IF Len(ls) = 1 THEN ls[1]
    ELSE ls[1] \o <<"\n">> \o JoinLines(Tail(ls))

\* strings.Fields: the maximal runs of non-whitespace characters, in order
RECURSIVE FieldsFrom(_, _)
FieldsFrom(s, cur) ==
    IF s = <<>> THEN (IF cur = <<>> THEN <<>> ELSE <<cur>>)
    ELSE IF Head(s) \in WhiteSpace
         THEN (IF cur = <<>> THEN <<>> ELSE <<cur>>) \o FieldsFrom(Tail(s), <<>>)
         ELSE FieldsFrom(Tail(s), Append(cur, Head(s)))

Fields(s) == FieldsFrom(s, <<>>)

(***************************************************************************)
(* String literals of the program                                          *)
(***************************************************************************)
Semicolon == <<";">>
K_GO == <<"G", "O">>
K_exit == <<"e", "x", "i", "t">>
K_quit == <<"q", "u", "i", "t">>
K_help == <<"h", "e", "l", "p">>
K_timing == <<"t", "i", "m", "i", "n", "g">>
K_clear == <<"c", "l", "e", "a", "r">>
K_cls == <<"c", "l", "s">>
K_usePrefix == <<"u", "s", "e", " ">>
P_SELECT == <<"S", "E", "L", "E", "C", "T">>
P_SHOW == <<"S", "H", "O", "W">>
P_WITH == <<"W", "I", "T", "H">>
P_EXPLAIN == <<"E", "X", "P", "L", "A", "I", "N">>
P_spHelp == <<"E", "X", "E", "C", " ", "s", "p", "_", "h", "e", "l", "p">>
P_spDatabases == <<"E", "X", "E", "C", " ", "s", "p", "_", "d", "a", "t", "a", "b", "a", "s", "e", "s">>
P_spTables == <<"E", "X", "E", "C", " ", "s", "p", "_", "t", "a", "b", "l", "e", "s">>
P_spColumns == <<"E", "X", "E", "C", " ", "s", "p", "_", "c", "o", "l", "u", "m", "n", "s">>
P_spWho == <<"E", "X", "E", "C", " ", "s", "p", "_", "w", "h", "o">>

\* the queryPrefixes slice of isQuery
queryPrefixes ==
    <<P_SELECT, P_SHOW, P_WITH, P_EXPLAIN,
      P_spHelp, P_spDatabases, P_spTables, P_spColumns, P_spWho>>

(***************************************************************************)
(* Input lines the user may type (the Line Source's vocabulary)            *)
(***************************************************************************)
L_Select1 == <<"S", "E", "L", "E", "C", "T", " ", "1">>
L_blank == <<" ">>
L_GO == <<"G", "O">>
L_go == <<" ", "g", "o", " ">>
L_Select1Semi == <<"S", "E", "L", "E", "C", "T", " ", "1", ";">>
L_semi == <<";">>
L_selectTSemi == <<" ", " ", "s", "e", "l", "e", "c", "t", " ", "*", " ", "f", "r", "o", "m", " ", "t", ";">>
L_updateTSemi == <<"u", "p", "d", "a", "t", "e", " ", "t", " ", "s", "e", "t", " ", "x", "=", "1", ";">>
L_QuitSemi == <<"Q", "U", "I", "T", ";">>
L_helpSemi == <<"h", "e", "l", "p", ";">>
L_timingSemi == <<"t", "i", "m", "i", "n", "g", ";">>
L_clsSemi == <<"c", "l", "s", ";">>
L_ClearSemi == <<"C", "L", "E", "A", "R", ";">>
L_useMydbSemi == <<"u", "s", "e", " ", "m", "y", "d", "b", ";">>
L_UseTwoSemi == <<"U", "S", "E", " ", " ", "m", "y", "d", "b", " ", "x", ";">>
L_useSemi == <<"u", "s", "e", ";">>
L_execSpWhoSemi == <<"e", "x", "e", "c", " ", "s", "p", "_", "w", "h", "o", ";">>
L_xSemiSemi == <<"x", ";", ";">>
L_aSemiSp == <<"a", ";", " ">>

\* lines that leave a batch open
OpenLines == { L_Select1, L_blank }

\* lines that end a batch
ClosingLines ==
    { L_GO, L_go, L_Select1Semi, L_semi, L_selectTSemi, L_updateTSemi,
      L_QuitSemi, L_helpSemi, L_timingSemi, L_clsSemi, L_ClearSemi,
      L_useMydbSemi, L_UseTwoSemi, L_useSemi, L_execSpWhoSemi, L_xSemiSemi,
      L_aSemiSp }

InputLines == OpenLines \cup ClosingLines

(***************************************************************************)
(* Bounds of the model                                                     *)
(***************************************************************************)
\* a batch holds at most MaxLines lines, its terminating line included
MaxLines == 3
\* a non-query statement reports 0..MaxAffected affected rows
MaxAffected == 2

(***************************************************************************)
(* Reader.ReadLine                                                         *)
(***************************************************************************)
\* what rl.Readline() can signal
Signals == {"normal", "interrupt", "eof", "error"}

\* Reader.ReadLine: (line, err) for a signal of the readline instance;
\* err is TRUE for a non-nil error
ReadLine(sig, line) ==
    IF sig = "interrupt" THEN [line |-> <<>>, err |-> FALSE]
    ELSE IF sig = "eof" THEN [line |-> K_exit, err |-> FALSE]
    ELSE IF sig = "error" THEN [line |-> <<>>, err |-> TRUE]
    ELSE [line |-> line, err |-> FALSE]

(***************************************************************************)
(* CLI.readMultiLine: the tests and the final string                       *)
(***************************************************************************)
\* strings.ToUpper(trimmed) == "GO"
IsBatchSeparator(trimmed) == ToUpper(trimmed) = K_GO

\* a variant that also lets a blank line end the batch
IsTerminatedOrBlank(trimmed) == HasSuffix(trimmed, Semicolon) \/ trimmed = <<>>

\* strings.HasSuffix(trimmed, ";")
IsTerminated(trimmed) == HasSuffix(trimmed, Semicolon)

\* a variant that strips every trailing ";" (strings.TrimRight)
RECURSIVE TrimRightSemicolons(_)
TrimRightSemicolons(s) ==
    IF HasSuffix(s, Semicolon)
    THEN TrimRightSemicolons(SubSeq(s, 1, Len(s) - 1))
    ELSE s

JoinResultStripAll(ls) == TrimRightSemicolons(TrimSpace(JoinLines(ls)))

\* result := strings.Join(lines, "\n");
\* result = strings.TrimSuffix(strings.TrimSpace(result), ";")
JoinResult(ls) == TrimSuffix(TrimSpace(JoinLines(ls)), Semicolon)

(***************************************************************************)
(* CLI.handleSpecialCommand and isQuery                                    *)
(***************************************************************************)
\* a variant that does not know cls
SpecialKindNoCls(cmd) ==
    LET cmdLower == ToLower(TrimSpace(cmd)) IN
    IF cmdLower = K_exit \/ cmdLower = K_quit THEN "exit"
    ELSE IF cmdLower = K_help THEN "help"
    ELSE IF cmdLower = K_timing THEN "timing"
    ELSE IF cmdLower = K_clear THEN "clear"
    ELSE IF HasPrefix(cmdLower, K_usePrefix) THEN "use"
    ELSE "none"

\* the branch of handleSpecialCommand a command takes; "none" is return false
SpecialKind(cmd) ==
    LET cmdLower == ToLower(TrimSpace(cmd)) IN
    IF cmdLower = K_exit \/ cmdLower = K_quit THEN "exit"
    ELSE IF cmdLower = K_help THEN "help"
    ELSE IF cmdLower = K_timing THEN "timing"
    ELSE IF cmdLower = K_clear \/ cmdLower = K_cls THEN "clear"
    ELSE IF HasPrefix(cmdLower, K_usePrefix) THEN "use"
    ELSE "none"

\* the test of CLI.Start after handleSpecialCommand returned true
IsExitCommand(s) == ToLower(s) = K_exit \/ ToLower(s) = K_quit

\* isQuery
isQuery(s) ==
    LET upper == ToUpper(TrimSpace(s)) IN
    \E i \in 1..Len(queryPrefixes) : HasPrefix(upper, queryPrefixes[i])

\* a Go string as one TLA+ string, for the text written to the terminal
RECURSIVE Text(_)
Text(s) == IF s = <<>> THEN "" ELSE Head(s) \o Text(Tail(s))

(***************************************************************************)
(* The database collaborator's answers                                     *)
(***************************************************************************)
\* err.Error() of a failed call; the second is context.DeadlineExceeded
DeadlineExceeded == "context deadline exceeded"
DbErrors == {"mssql: Incorrect syntax", DeadlineExceeded}

\* a driver value scanned into an interface{}: nil, []byte, time.Time or
\* anything else, with the text the renderer's formatting rule gives it
CellNull == [kind |-> "nil", text |-> <<>>]
CellInt == [kind |-> "other", text |-> <<"7">>]
CellBytes == [kind |-> "bytes", text |-> <<"h", "e", "l", "l", "o">>]

ColId == <<"i", "d">>
ColName == <<"c", "o", "m", "m", "e", "n", "t">>

\* the result sets a query of the session may open: columns, the rows the
\* cursor yields, and rows.Err() once it has yielded them ("" is nil)
SessionCursors ==
    { [cols |-> <<ColId>>, rows |-> rs, err |-> e] :
        rs \in { <<>>, <<<<CellInt>>>>, <<<<CellInt>>, <<CellNull>>>> },
        e \in {"", DeadlineExceeded} }
    \cup { [cols |-> <<ColId, ColName>>,
            rows |-> <<<<CellInt, CellBytes>>>>, err |-> ""] }

NoCursor == [cols |-> <<>>, rows |-> <<>>, err |-> ""]

\* no line has been read in this batch yet
NothingRead == [sig |-> "none", line |-> <<>>]

\* a call on c.db and the error it returned ("" is nil)
DbCall(op, text, e) == [op |-> op, text |-> text, err |-> e]

(***************************************************************************)
(* State                                                                   *)
(***************************************************************************)
VARIABLES
    pc,             \* where CLI.Start is: prompt, read, dispatch, exec,
                    \* stream, render, done (Start has returned)
    database,       \* CLI.database
    timingEnabled,  \* CLI.timingEnabled
    maxRows,        \* CLI.maxRows
    lines,          \* readMultiLine's lines; kept as returned until the
                    \* next prompt
    lastRead,       \* the last signal of rl.Readline() in this batch and
                    \* the line Reader.ReadLine made of it
    sqlStr,         \* Start's sqlStr
    ctx,            \* executeSQL's context: none, active
    cursor,         \* the *sql.Rows of executeQuery; it and displayTable's
                    \* locals are kept as left until the next prompt
    pos,            \* the number of rows rows.Next() has yielded
    rowsOpen,       \* the cursor is open (rows.Close() not yet run)
    rowsErr,        \* rows.Err()
    colWidths,      \* displayTable's colWidths
    allRows,        \* displayTable's allRows
    out,            \* what has been written to the terminal since, and
                    \* including, the last prompt: one entry per Fprintf
    dbCalls         \* the calls made on c.db since the last prompt

vars == <<pc, database, timingEnabled, maxRows, lines, lastRead, sqlStr, ctx,
          cursor, pos, rowsOpen, rowsErr, colWidths, allRows, out, dbCalls>>

sessionVars == <<database, timingEnabled, maxRows>>
readVars == <<lines, lastRead, sqlStr>>
rowVars == <<cursor, pos, rowsOpen, rowsErr, colWidths, allRows>>

\* the database name NewCLI is given
InitialDatabase == <<"t", "e", "s", "t", "d", "b">>

\* maxRows: 1000 of NewCLI
DefaultMaxRows == 1000

\* NewCLI, then Connect; Start is about to run
Init ==
    /\ pc = "prompt"
    /\ database = InitialDatabase
    /\ timingEnabled = FALSE
    /\ maxRows = DefaultMaxRows
    /\ lines = <<>>
    /\ lastRead = NothingRead
    /\ sqlStr = <<>>
    /\ ctx = "none"
    /\ cursor = NoCursor
    /\ pos = 0
    /\ rowsOpen = FALSE
    /\ rowsErr = ""
    /\ colWidths = <<>>
    /\ allRows = <<>>
    /\ out = <<>>
    /\ dbCalls = <<>>

(***************************************************************************)
(* CLI.Start: the prompt                                                   *)
(***************************************************************************)
\* getPrompt
getPrompt == Text(database) \o "> "

\* Start, the top of the loop: write the prompt and enter readMultiLine
Prompt ==
    /\ pc = "prompt"
    /\ pc' = "read"
    /\ out' = <<getPrompt>>
    /\ dbCalls' = <<>>
    /\ lines' = <<>>
    /\ lastRead' = NothingRead
    /\ sqlStr' = <<>>
    /\ cursor' = NoCursor
    /\ pos' = 0
    /\ rowsErr' = ""
    /\ colWidths' = <<>>
    /\ allRows' = <<>>
    /\ UNCHANGED <<sessionVars, ctx, rowsOpen>>

(***************************************************************************)
(* CLI.readMultiLine, one iteration of its loop, and Start's handling of   *)
(* what it returns                                                         *)
(***************************************************************************)
\* readMultiLine returns result to Start: "" makes Start continue, anything
\* else is trimmed and goes to handleSpecialCommand
ReturnToStart(retained, result) ==
    /\ lines' = retained
    /\ IF result = <<>>
       THEN pc' = "prompt" /\ sqlStr' = <<>>
       ELSE pc' = "dispatch" /\ sqlStr' = TrimSpace(result)
    /\ out' = out

\* a variant that keeps the GO line
KeepLast(ls) == ls

\* lines = lines[:len(lines)-1]
DropLast(ls) == SubSeq(ls, 1, Len(ls) - 1)

\* one iteration: a line is read; the batch is abandoned, ended or grown.
\* The user leaves a batch open for fewer than MaxLines lines.
ReadStep(sig, typed) ==
    /\ pc = "read"
    /\ lastRead' = [sig |-> sig, line |-> ReadLine(sig, typed).line]
    /\ LET r == ReadLine(sig, typed)
           trimmed == TrimSpace(r.line)
           appended == Append(lines, r.line)
       IN  IF r.err
           THEN ReturnToStart(lines, <<>>)
           ELSE IF trimmed = <<>> /\ Len(lines) = 0
           THEN ReturnToStart(lines, <<>>)
           ELSE IF IsBatchSeparator(trimmed)
           THEN LET kept == DropLast(appended)
                IN  ReturnToStart(kept, JoinResult(kept))
           ELSE IF IsTerminated(trimmed)
           THEN ReturnToStart(appended, JoinResult(appended))
           ELSE /\ Len(appended) < MaxLines
                /\ lines' = appended
                /\ out' = Append(out, "  -> ")
                /\ UNCHANGED <<pc, sqlStr>>
    /\ UNCHANGED <<sessionVars, ctx, rowVars, dbCalls>>

ReadNormal == \E typed \in InputLines : ReadStep("normal", typed)
ReadInterrupt == ReadStep("interrupt", <<>>)
ReadEOF == ReadStep("eof", <<>>)
ReadError == ReadStep("error", <<>>)

(***************************************************************************)
(* CLI.handleSpecialCommand, as called by Start on the trimmed statement   *)
(***************************************************************************)
\* showHelp writes its text with one Fprintf
HelpText == "\nSQL Server Commands\n===================\n..."

ClearScreen == "ESC[2JESC[H"

\* exit, quit: a newline; Start then tests the statement again and returns
HandleExit ==
    /\ pc = "dispatch"
    /\ SpecialKind(sqlStr) = "exit"
    /\ out' = Append(out, "\n")
    /\ pc' = IF IsExitCommand(sqlStr) THEN "done" ELSE "prompt"
    /\ UNCHANGED <<sessionVars, readVars, ctx, rowVars, dbCalls>>

HandleHelp ==
    /\ pc = "dispatch"
    /\ SpecialKind(sqlStr) = "help"
    /\ out' = Append(out, HelpText)
    /\ pc' = "prompt"
    /\ UNCHANGED <<sessionVars, readVars, ctx, rowVars, dbCalls>>

\* a variant that switches timing on instead of flipping it
HandleTimingOn ==
    /\ pc = "dispatch"
    /\ SpecialKind(sqlStr) = "timing"
    /\ timingEnabled' = TRUE
    /\ out' = Append(out, "Timing enabled\n")
    /\ pc' = "prompt"
    /\ UNCHANGED <<database, maxRows, readVars, ctx, rowVars, dbCalls>>

HandleTiming ==
    /\ pc = "dispatch"
    /\ SpecialKind(sqlStr) = "timing"
    /\ timingEnabled' = ~timingEnabled
    /\ out' = Append(out, IF timingEnabled' THEN "Timing enabled\n"
                                            ELSE "Timing disabled\n")
    /\ pc' = "prompt"
    /\ UNCHANGED <<database, maxRows, readVars, ctx, rowVars, dbCalls>>

HandleClear ==
    /\ pc = "dispatch"
    /\ SpecialKind(sqlStr) = "clear"
    /\ out' = Append(out, ClearScreen)
    /\ pc' = "prompt"
    /\ UNCHANGED <<sessionVars, readVars, ctx, rowVars, dbCalls>>

\* the call useDatabase makes: c.db.Exec(fmt.Sprintf("USE [%s]", dbName))
UseText(dbName) == "USE [" \o Text(dbName) \o "]"

\* a variant that records the new database before the answer is known
useDatabaseEager(dbName, e) ==
    /\ dbCalls' = Append(dbCalls, DbCall("Exec", UseText(dbName), e))
    /\ database' = dbName
    /\ IF e # ""
       THEN out' = Append(out, "Error: " \o e \o "\n")
       ELSE out' = Append(out, "Changed database context to '"
                               \o Text(dbName) \o "'.\n")

\* useDatabase(dbName), the database answering with error e ("" is nil)
useDatabase(dbName, e) ==
    /\ dbCalls' = Append(dbCalls, DbCall("Exec", UseText(dbName), e))
    /\ IF e # ""
       THEN /\ out' = Append(out, "Error: " \o e \o "\n")
            /\ database' = database
       ELSE /\ database' = dbName
            /\ out' = Append(out, "Changed database context to '"
                                  \o Text(dbName) \o "'.\n")

\* the "use " branch: parts := strings.Fields(cmd)
HandleUse ==
    /\ pc = "dispatch"
    /\ SpecialKind(sqlStr) = "use"
    /\ LET parts == Fields(sqlStr) IN
       IF Len(parts) >= 2
       THEN \E e \in DbErrors \cup {""} : useDatabase(parts[2], e)
       ELSE UNCHANGED <<database, out, dbCalls>>
    /\ pc' = "prompt"
    /\ UNCHANGED <<timingEnabled, maxRows, readVars, ctx, rowVars>>

(***************************************************************************)
(* CLI.executeSQL                                                          *)
(***************************************************************************)
\* printError: the header, then the error's text and a blank line
ErrorHeader == "Msg 50000, Level 16, State 1\n"
printErrorNoHeader(e) == <<e \o "\n\n">>
printError(e) == <<ErrorHeader, e \o "\n\n">>

\* a variant without the singular form
RowCountLineAlwaysPlural(n) == "(" \o ToString(n) \o " rows affected)\n"

\* the row-count line of displayTable and executeCommand
RowCountLine(n) ==
    IF n = 0 THEN "(0 rows affected)\n"
    ELSE IF n = 1 THEN "(1 row affected)\n"
    ELSE "(" \o ToString(n) \o " rows affected)\n"

\* time.Since(startTime), observed to the millisecond
ElapsedMillis == {7, 1500}

\* %.3f of the seconds: the whole seconds, a point and three decimals
FormatSeconds(ms) ==
    ToString(ms \div 1000) \o "." \o ToString((ms \div 100) % 10)
    \o ToString((ms \div 10) % 10) \o ToString(ms % 10)

\* "Time: %.3f sec\n"
TimeLine(ms) == "Time: " \o FormatSeconds(ms) \o " sec\n"

\* the timing line, if enabled, and the blank line that ends a result
Footer(ms) == (IF timingEnabled THEN <<TimeLine(ms)>> ELSE <<>>) \o <<"\n">>

\* handleSpecialCommand returned false: executeSQL starts, with a context
\* of its own (an empty statement returns at once)
BeginExecute ==
    /\ pc = "dispatch"
    /\ SpecialKind(sqlStr) = "none"
    /\ IF TrimSpace(sqlStr) = <<>>
       THEN pc' = "prompt" /\ ctx' = ctx
       ELSE pc' = "exec" /\ ctx' = "active"
    /\ UNCHANGED <<sessionVars, readVars, rowVars, out, dbCalls>>

\* a variant without the lower clamp
InitialWidthNoFloor(col) == IF Len(col) > 50 THEN 50 ELSE Len(col)

\* the width a column starts with: len(col) clamped to [4, 50]
MinWidth == 4
MaxWidth == 50
InitialWidth(col) ==
    IF Len(col) < MinWidth THEN MinWidth
    ELSE IF Len(col) > MaxWidth THEN MaxWidth
    ELSE Len(col)

\* executeQuery: c.db.QueryContext fails, or returns rows and displayTable
\* starts with the initial widths
QueryFails(e) ==
    /\ pc = "exec"
    /\ isQuery(sqlStr)
    /\ dbCalls' = Append(dbCalls, DbCall("QueryContext", Text(sqlStr), e))
    /\ out' = out \o printError(e)
    /\ ctx' = "none"
    /\ pc' = "prompt"
    /\ UNCHANGED <<sessionVars, readVars, rowVars>>

\* a variant that returns to the prompt while the rows are still streamed
QueryOpensDetached(c) ==
    /\ pc = "exec"
    /\ isQuery(sqlStr)
    /\ dbCalls' = Append(dbCalls, DbCall("QueryContext", Text(sqlStr), ""))
    /\ cursor' = c
    /\ pos' = 0
    /\ rowsOpen' = TRUE
    /\ rowsErr' = ""
    /\ colWidths' = [i \in 1..Len(c.cols) |-> InitialWidth(c.cols[i])]
    /\ allRows' = <<>>
    /\ pc' = "prompt"
    /\ UNCHANGED <<sessionVars, readVars, ctx, out>>

QueryOpens(c) ==
    /\ pc = "exec"
    /\ isQuery(sqlStr)
    /\ dbCalls' = Append(dbCalls, DbCall("QueryContext", Text(sqlStr), ""))
    /\ cursor' = c
    /\ pos' = 0
    /\ rowsOpen' = TRUE
    /\ rowsErr' = ""
    /\ colWidths' = [i \in 1..Len(c.cols) |-> InitialWidth(c.cols[i])]
    /\ allRows' = <<>>
    /\ pc' = "stream"
    /\ UNCHANGED <<sessionVars, readVars, ctx, out>>

\* executeCommand: c.db.ExecContext fails, or reports affected rows
CommandFails(e) ==
    /\ pc = "exec"
    /\ ~isQuery(sqlStr)
    /\ dbCalls' = Append(dbCalls, DbCall("ExecContext", Text(sqlStr), e))
    /\ out' = out \o printError(e)
    /\ ctx' = "none"
    /\ pc' = "prompt"
    /\ UNCHANGED <<sessionVars, readVars, rowVars>>

CommandSucceeds(affected) ==
    /\ pc = "exec"
    /\ ~isQuery(sqlStr)
    /\ dbCalls' = Append(dbCalls, DbCall("ExecContext", Text(sqlStr), ""))
    /\ \E ms \in ElapsedMillis :
          out' = out \o <<RowCountLine(affected)>> \o Footer(ms)
    /\ ctx' = "none"
    /\ pc' = "prompt"
    /\ UNCHANGED <<sessionVars, readVars, rowVars>>

(***************************************************************************)
(* CLI.displayTable                                                        *)
(***************************************************************************)
NullText == <<"N", "U", "L", "L">>
Ellipsis == <<".", ".", ".">>
\* rowStrs[i][:47]
KeptChars == 47

\* the formatting rule by the value's runtime kind
FormatValue(v) == IF v.kind = "nil" THEN NullText ELSE v.text

\* a variant that grows the width to any cell's length and truncates only
\* in a column that is already at the cap
FitCellGrowFirst(str, width) ==
    IF Len(str) > width
    THEN IF width = MaxWidth
         THEN [text |-> SubSeq(str, 1, KeptChars) \o Ellipsis, width |-> MaxWidth]
         ELSE [text |-> str, width |-> Len(str)]
    ELSE [text |-> str, width |-> width]

\* the cell and the column's width after the width test on one cell
FitCell(str, width) ==
    IF Len(str) > width
    THEN IF Len(str) > MaxWidth
         THEN [text |-> SubSeq(str, 1, KeptChars) \o Ellipsis, width |-> MaxWidth]
         ELSE [text |-> str, width |-> Len(str)]
    ELSE [text |-> str, width |-> width]

\* a variant that stops one row late
CapReachedLate(n, cap) == n > cap

\* len(allRows) >= c.maxRows
CapReached(n, cap) == n >= cap

\* rows.Next() yields a row: it is scanned, formatted, fitted and appended;
\* the loop breaks when the cap is reached
StreamRow ==
    /\ pc = "stream"
    /\ pos < Len(cursor.rows)
    /\ LET vals == cursor.rows[pos + 1]
           fit == [i \in 1..Len(vals) |-> FitCell(FormatValue(vals[i]), colWidths[i])]
       IN  /\ allRows' = Append(allRows, [i \in 1..Len(vals) |-> fit[i].text])
           /\ colWidths' = [i \in 1..Len(vals) |-> fit[i].width]
    /\ pos' = pos + 1
    /\ pc' = IF CapReached(Len(allRows'), maxRows) THEN "render" ELSE "stream"
    /\ UNCHANGED <<sessionVars, readVars, ctx, cursor, rowsOpen, rowsErr, out, dbCalls>>

\* rows.Next() returns false: the cursor is exhausted or has failed; the
\* sql package closes it and keeps the error for rows.Err()
StreamEnds ==
    /\ pc = "stream"
    /\ pos = Len(cursor.rows)
    /\ rowsErr' = cursor.err
    /\ rowsOpen' = FALSE
    /\ pc' = "render"
    /\ UNCHANGED <<sessionVars, readVars, ctx, cursor, pos, colWidths, allRows, out, dbCalls>>

\* strings.Repeat(ch, n) as text
RECURSIVE Repeat(_, _)
Repeat(ch, n) == IF n <= 0 THEN "" ELSE ch \o Repeat(ch, n - 1)

\* fmt's %-*s: left-justified, padded with spaces to the width, never cut
PadRight(str, width) == Text(str) \o Repeat(" ", width - Len(str))

\* printSeparator: one Fprintf per piece
RECURSIVE SeparatorPieces(_)
SeparatorPieces(widths) ==
    IF widths = <<>> THEN <<>>
    ELSE <<Repeat("-", Head(widths) + 2) \o "+">> \o SeparatorPieces(Tail(widths))

printSeparator(widths) == <<"+">> \o SeparatorPieces(widths) \o <<"\n">>

\* one row of the table (the header or a data row): "| ", the cells, "\n"
RECURSIVE CellPieces(_, _, _)
CellPieces(cells, widths, i) ==
    IF i > Len(cells) THEN <<>>
    ELSE <<PadRight(cells[i], widths[i]) \o " | ">> \o CellPieces(cells, widths, i + 1)

printRow(cells, widths) == <<"| ">> \o CellPieces(cells, widths, 1) \o <<"\n">>

\* for _, row := range allRows: the rows in order (the sequence is split
\* in halves to keep the evaluation shallow)
RECURSIVE printRows(_, _)
printRows(rs, widths) ==
    IF rs = <<>> THEN <<>>
    ELSE IF Len(rs) = 1 THEN printRow(rs[1], widths)
    ELSE LET half == Len(rs) \div 2 IN
         printRows(SubSeq(rs, 1, half), widths)
         \o printRows(SubSeq(rs, half + 1, Len(rs)), widths)

\* everything displayTable writes after the loop
TableOutput(ms) ==
    printSeparator(colWidths)
    \o printRow(cursor.cols, colWidths)
    \o printSeparator(colWidths)
    \o printRows(allRows, colWidths)
    \o printSeparator(colWidths)
    \o <<RowCountLine(Len(allRows))>>
    \o Footer(ms)

\* a variant without the deferred rows.Close()
RenderTableNoClose ==
    /\ pc = "render"
    /\ \E ms \in ElapsedMillis : out' = out \o TableOutput(ms)
    /\ ctx' = "none"
    /\ pc' = "prompt"
    /\ UNCHANGED <<sessionVars, readVars, cursor, pos, rowsOpen, rowsErr,
                   colWidths, allRows, dbCalls>>

\* displayTable after the loop, then the deferred rows.Close() of
\* executeQuery and the deferred cancel() of executeSQL
RenderTable ==
    /\ pc = "render"
    /\ \E ms \in ElapsedMillis : out' = out \o TableOutput(ms)
    /\ rowsOpen' = FALSE
    /\ ctx' = "none"
    /\ pc' = "prompt"
    /\ UNCHANGED <<sessionVars, readVars, cursor, pos, rowsErr, colWidths, allRows, dbCalls>>

(***************************************************************************)
(* The session                                                             *)
(***************************************************************************)
Next ==
    \/ Prompt
    \/ ReadNormal
    \/ ReadInterrupt
    \/ ReadEOF
    \/ ReadError
    \/ HandleExit
    \/ HandleHelp
    \/ HandleTiming
    \/ HandleClear
    \/ HandleUse
    \/ BeginExecute
    \/ \E e \in DbErrors : QueryFails(e)
    \/ \E c \in SessionCursors : QueryOpens(c)
    \/ \E e \in DbErrors : CommandFails(e)
    \/ \E n \in 0..MaxAffected : CommandSucceeds(n)
    \/ StreamRow
    \/ StreamEnds
    \/ RenderTable

Spec == Init /\ [][Next]_vars

\* Start is one sequential loop: whenever it can take a step, it does
FairSpec == Spec /\ WF_vars(Next)

(***************************************************************************)
(* Properties                                                              *)
(***************************************************************************)
Last(q) == q[Len(q)]

\* readMultiLine has just been given end-of-input as the first line of a batch
EofOnFirstLine ==
    /\ pc = "read"
    /\ lastRead.sig = "eof"
    /\ Len(lines) = 1

Terminated == pc = "done"

\* C1: end-of-input on the first line of a batch is as good as typing exit:
\* from there Start eventually returns.
C1_EofLeadsToTermination == EofOnFirstLine ~> Terminated

\* a call of executeSQL's has returned an error
ExecutionFailed ==
    /\ dbCalls # <<>>
    /\ Last(dbCalls).op \in {"QueryContext", "ExecContext"}
    /\ Last(dbCalls).err # ""

\* C2: a failed execution writes the diagnostic header, then the error's
\* text and a blank line, and the loop is back at the prompt; Start has
\* returned only if the statement read is exit or quit in some letter case.
C2_FailureKeepsLoop ==
    /\ ExecutionFailed =>
          /\ pc = "prompt"
          /\ Len(out) >= 3
          /\ out[Len(out) - 1] = "Msg 50000, Level 16, State 1\n"
          /\ out[Len(out)] = Last(dbCalls).err \o "\n\n"
    /\ Terminated =>
          /\ ToLower(sqlStr) \in {K_exit, K_quit}
          /\ dbCalls = <<>>

C2_Witness ==
    /\ ExecutionFailed
    /\ Last(dbCalls).op = "QueryContext"
    /\ pc = "prompt"

\* the Line Source has just failed with an error
InputError == lastRead.sig = "error"

\* C3: an input-source error is treated as exit: from there Start
\* eventually returns.
C3_InputErrorLeadsToTermination == InputError ~> Terminated

\* the trimmed line is GO in some letter case
IsGoLine(t) == Len(t) = 2 /\ t[1] \in {"G", "g"} /\ t[2] \in {"O", "o"}

\* the trimmed line ends with ";"
EndsWithSemicolon(t) == t # <<>> /\ t[Len(t)] = ";"

\* a line that ends a batch
ClosesBatch(line) ==
    IsGoLine(TrimSpace(line)) \/ EndsWithSemicolon(TrimSpace(line))

\* C4: readMultiLine has returned a non-empty statement only if the last
\* line read is GO or ends with ";"; after any other non-blank line it has
\* kept the line, written the continuation prompt and is reading on.
C4_OpenBatchKeepsReading ==
    /\ sqlStr # <<>> => ClosesBatch(lastRead.line)
    /\ pc = "dispatch" => ClosesBatch(lastRead.line)
    /\ ( /\ lastRead.sig \in {"normal", "eof"}
         /\ TrimSpace(lastRead.line) # <<>>
         /\ ~ClosesBatch(lastRead.line) )
       => /\ pc = "read"
          /\ Last(lines) = lastRead.line
          /\ Last(out) = "  -> "

C4_Witness ==
    /\ pc = "read"
    /\ lastRead = [sig |-> "normal", line |-> L_Select1]
    /\ lines = <<L_blank, L_Select1>> \/ lines = <<L_Select1, L_Select1>>

\* C5: when a GO line ends the batch, the lines kept are those read before
\* it, and the statement returned is exactly those lines joined with
\* newlines and trimmed; it ends with no ";".
C5_GoEndsBatch ==
    [][ ( /\ pc = "read"
          /\ lastRead'.sig = "normal"
          /\ IsGoLine(TrimSpace(lastRead'.line)) )
        => LET stmt == TrimSpace(JoinLines(lines)) IN
           /\ lines' = lines
           /\ sqlStr' = stmt
           /\ pc' = IF stmt = <<>> THEN "prompt" ELSE "dispatch"
           /\ ~EndsWithSemicolon(stmt)
           /\ lines = <<L_Select1>> => sqlStr' = L_Select1 ]_vars

C5_Witness ==
    /\ pc = "dispatch"
    /\ lastRead.line = L_go
    /\ lines = <<L_Select1, L_Select1>>
    /\ sqlStr = L_Select1 \o <<"\n">> \o L_Select1

\* C6: when a line ending with ";" ends the batch, the statement that goes
\* to classification is the lines kept, that line included, joined with
\* newlines and trimmed, less one trailing ";", trimmed again; if that is
\* empty Start goes back to the prompt and nothing is executed.
C6_SemicolonEndsBatch ==
    [][ ( /\ pc = "read"
          /\ lastRead'.sig = "normal"
          /\ EndsWithSemicolon(TrimSpace(lastRead'.line)) )
        => LET kept == Append(lines, lastRead'.line)
               joined == TrimSpace(JoinLines(kept))
               stmt == TrimSpace(SubSeq(joined, 1, Len(joined) - 1))
           IN  /\ lines' = kept
               /\ EndsWithSemicolon(joined)
               /\ sqlStr' = stmt
               /\ pc' = IF stmt = <<>> THEN "prompt" ELSE "dispatch"
               /\ dbCalls' = <<>>
               /\ kept = <<L_Select1Semi>> => sqlStr' = L_Select1 ]_vars

C6_Witness ==
    /\ pc = "dispatch"
    /\ lines = <<L_Select1Semi>>
    /\ sqlStr = L_Select1

\* the statement begins with an entry of the allow-list, letter case ignored
OnAllowList(s) ==
    \E i \in 1..Len(queryPrefixes) :
        HasPrefix(ToUpper(TrimSpace(s)), ToUpper(queryPrefixes[i]))

\* C7: a statement is run as a query exactly when it begins, letter case
\* ignored, with an entry of the allow-list.
C7_QueryIffOnAllowList ==
    \A i \in 1..Len(dbCalls) :
        dbCalls[i].op \in {"QueryContext", "ExecContext"}
        => (dbCalls[i].op = "QueryContext" <=> OnAllowList(sqlStr))

\* the statement is one of the meta-commands
IsClientCommand(s) ==
    ToLower(s) \in {K_exit, K_quit, K_help, K_timing, K_clear, K_cls}
IsUseCommand(s) == HasPrefix(ToLower(s), K_usePrefix)

\* C8, as claimed: no meta-command, use included, makes a database call.
C8_MetaNeverCallsDatabase ==
    (IsClientCommand(sqlStr) \/ IsUseCommand(sqlStr)) => dbCalls = <<>>

\* C8, amended: exit, quit, help, timing, clear and cls make no database
\* call; use <name> makes exactly one, the Exec of USE [<name>], and is
\* never run by executeSQL.
C8_OnlyUseCallsDatabase ==
    /\ IsClientCommand(sqlStr) => dbCalls = <<>> /\ pc \in {"dispatch", "prompt", "done"}
    /\ IsUseCommand(sqlStr) =>
          \/ pc = "dispatch" /\ dbCalls = <<>>
          \/ /\ pc = "prompt"
             /\ Len(dbCalls) = 1
             /\ dbCalls[1].op = "Exec"
             /\ dbCalls[1].text = "USE [" \o Text(Fields(sqlStr)[2]) \o "]"

C8_Witness ==
    /\ pc = "prompt"
    /\ sqlStr = DropLast(L_UseTwoSemi)
    /\ dbCalls = <<DbCall("Exec", "USE [mydb]", "")>>

\* the deadline of the execution has passed: the call, or the cursor,
\* has failed with it
DeadlineHit ==
    \/ ExecutionFailed /\ Last(dbCalls).err = DeadlineExceeded
    \/ rowsErr = DeadlineExceeded

\* C9: an execution that exceeds its deadline, before the call returns or
\* while rows are streamed, shows a failure (the header and the error's
\* text) and nothing else, and the loop is back at the prompt.
C9_DeadlineShowsFailure ==
    (DeadlineHit /\ pc = "prompt")
    => /\ Len(out) >= 3
       /\ out[Len(out) - 1] = "Msg 50000, Level 16, State 1\n"
       /\ out[Len(out)] = DeadlineExceeded \o "\n\n"
       /\ \A i \in 1..Len(out) :
             /\ out[i] \notin {"+", "| "}
             /\ \A n \in 0..Len(cursor.rows) : out[i] # RowCountLine(n)

(***************************************************************************)
(* The renderer on long result sets: displayTable from the state in which  *)
(* executeQuery calls it, for cursors around the row cap                   *)
(***************************************************************************)
\* rows a cursor yields beyond the cap, at most
MaxExtraRows == 2
\* the short result sets: 0..MaxShortRows rows
MaxShortRows == 2

RowCapSizes ==
    (0..MaxShortRows) \cup ((DefaultMaxRows - 1)..(DefaultMaxRows + MaxExtraRows))

RowCapCursors ==
    { [cols |-> <<ColId>>, rows |-> [i \in 1..n |-> <<CellInt>>], err |-> e] :
        n \in RowCapSizes, e \in {"", DeadlineExceeded} }

\* "SELECT 1;" has been read and QueryContext has returned the cursor
InitRows ==
    /\ pc = "stream"
    /\ database = InitialDatabase
    /\ timingEnabled \in BOOLEAN
    /\ maxRows = DefaultMaxRows
    /\ lines = <<L_Select1Semi>>
    /\ lastRead = [sig |-> "normal", line |-> L_Select1Semi]
    /\ sqlStr = L_Select1
    /\ ctx = "active"
    /\ cursor \in RowCapCursors
    /\ pos = 0
    /\ rowsOpen = TRUE
    /\ rowsErr = ""
    /\ colWidths = [i \in 1..Len(cursor.cols) |-> InitialWidth(cursor.cols[i])]
    /\ allRows = <<>>
    /\ out = <<getPrompt>>
    /\ dbCalls = <<DbCall("QueryContext", Text(sqlStr), "")>>

NextRows ==
    \/ StreamRow
    \/ StreamEnds
    \/ RenderTable

SpecRows == InitRows /\ [][NextRows]_vars

\* the rows displayTable has to show of a cursor yielding k rows
Capped(k, cap) == IF k > cap THEN cap ELSE k

\* C10: of a cursor yielding k rows, displayTable fetches and renders
\* min(k, maxRows) rows, and the summary line reports that number.
C10_RowCap ==
    (pc = "prompt" /\ cursor.cols # <<>>)
    => LET n == Capped(Len(cursor.rows), maxRows) IN
       /\ pos = n
       /\ Len(allRows) = n
       /\ Cardinality({i \in 1..Len(out) : out[i] = "| "}) = n + 1
       /\ Cardinality({i \in 1..Len(out) : out[i] = "\n"}) = n + 5
       /\ out[Len(out) - (IF timingEnabled THEN 2 ELSE 1)] =
             (IF n = 0 THEN "(0 rows affected)\n"
              ELSE IF n = 1 THEN "(1 row affected)\n"
              ELSE "(" \o ToString(n) \o " rows affected)\n")

C10_Witness ==
    /\ pc = "prompt"
    /\ Len(cursor.rows) > maxRows
    /\ Len(allRows) = maxRows

(***************************************************************************)
(* The renderer on wide columns and long cells: displayTable from the      *)
(* state in which executeQuery calls it                                    *)
(***************************************************************************)
\* a result set of the wide-table runs has at most MaxTableRows rows
MaxTableRows == 2
\* its longest texts are MaxOverlong characters over the width cap
MaxOverlong == 10

Digits == <<"0", "1", "2", "3", "4", "5", "6", "7", "8", "9">>

\* a text of n characters: 0123456789012...
TextOfLen(n) == [i \in 1..n |-> Digits[((i - 1) % 10) + 1]]

CellText(n) == [kind |-> "other", text |-> TextOfLen(n)]

TableCells ==
    { CellNull, CellInt, CellText(MaxWidth), CellText(MaxWidth + 1),
      CellText(MaxWidth + MaxOverlong) }

\* a column whose name is longer than the width cap
ColWide == TextOfLen(MaxWidth + MaxOverlong)

TableColumns == { <<ColId>>, <<ColName, ColWide>> }

TableCursors ==
    UNION { { [cols |-> cs, rows |-> rs, err |-> ""] :
                rs \in UNION { [1..n -> [1..Len(cs) -> TableCells]] :
                                 n \in 0..MaxTableRows } } :
            cs \in TableColumns }

InitTable ==
    /\ pc = "stream"
    /\ database = InitialDatabase
    /\ timingEnabled \in BOOLEAN
    /\ maxRows = DefaultMaxRows
    /\ lines = <<L_Select1Semi>>
    /\ lastRead = [sig |-> "normal", line |-> L_Select1Semi]
    /\ sqlStr = L_Select1
    /\ ctx = "active"
    /\ cursor \in TableCursors
    /\ pos = 0
    /\ rowsOpen = TRUE
    /\ rowsErr = ""
    /\ colWidths = [i \in 1..Len(cursor.cols) |-> InitialWidth(cursor.cols[i])]
    /\ allRows = <<>>
    /\ out = <<getPrompt>>
    /\ dbCalls = <<DbCall("QueryContext", Text(sqlStr), "")>>

SpecTable == InitTable /\ [][NextRows]_vars

\* where in out the piece of data row r, column i is: after the prompt,
\* two border lines and the header row
CellPieceAt(r, i) ==
    LET perLine == Len(cursor.cols) + 2 IN 1 + (2 + r) * perLine + 1 + i

LastK(q, k) == SubSeq(q, Len(q) - k + 1, Len(q))

CountText(n) ==
    CASE n = 0 -> "(0 rows affected)\n"
      [] n = 1 -> "(1 row affected)\n"
      [] OTHER -> "(" \o ToString(n) \o " rows affected)\n"

\* the lines "Time: s.ddd sec" for the elapsed times of the runs
TimeTexts == { "Time: 0.007 sec\n", "Time: 1.500 sec\n" }

\* what must follow the count line, given the timing flag
IsFooterTail(t, timing) ==
    IF timing
    THEN Len(t) = 2 /\ t[1] \in TimeTexts /\ t[2] = "\n"
    ELSE t = <<"\n">>

\* C12: a successful execution reporting N rows ends its output with the
\* count line for N (singular only for 1), then the Time line if and only
\* if timing is enabled at that moment, then a blank line, in that order,
\* for a non-query as well as for a rendered table.
C12_ResultFooter ==
    [][ /\ \A n \in 0..MaxAffected :
              CommandSucceeds(n) =>
                 LET added == SubSeq(out', Len(out) + 1, Len(out')) IN
                 /\ SubSeq(out', 1, Len(out)) = out
                 /\ Len(added) >= 2
                 /\ added[1] = CountText(n)
                 /\ IsFooterTail(Tail(added), timingEnabled)
        /\ RenderTable =>
              LET k == IF timingEnabled THEN 3 ELSE 2
                  added == LastK(out', k) IN
              /\ Len(out') >= Len(out) + k
              /\ added[1] = CountText(Len(allRows))
              /\ IsFooterTail(Tail(added), timingEnabled)
      ]_vars

C12_Witness ==
    /\ pc = "prompt"
    /\ timingEnabled
    /\ Len(dbCalls) = 1
    /\ dbCalls[1].op = "ExecContext"
    /\ Len(out) >= 4
    /\ LastK(out, 3) = <<"(2 rows affected)\n", "Time: 1.500 sec\n", "\n">>

(***************************************************************************)
(* Interrupts while a batch is read                                        *)
(***************************************************************************)
\* C13: an interrupt from the line source never appends anything to the
\* batch: at the start of a batch the round is empty, and in the middle of
\* a batch the retained lines are what they were before the interrupt.
C13_InterruptAppendsNothing ==
    [][ (pc = "read" /\ lastRead'.sig = "interrupt") =>
            /\ lines' = lines
            /\ (Len(lines) = 0 => pc' = "prompt" /\ sqlStr' = <<>>)
      ]_vars

(***************************************************************************)
(* use without a database name                                             *)
(***************************************************************************)
K_use == <<"u", "s", "e">>

\* the statement is the word use and nothing else
IsBareUse(s) == Len(Fields(s)) = 1 /\ ToLower(Fields(s)[1]) = K_use

\* C14: use without a name is silently ignored: it is handled as a
\* meta-command, never reaches the executor, makes no database call and
\* writes no error; "use mydb" is handled with the argument mydb.
C14_BareUseIgnored ==
    /\ (pc # "read" /\ IsBareUse(sqlStr)) =>
          /\ pc \in {"dispatch", "prompt"}
          /\ ctx = "none"
          /\ dbCalls = <<>>
          /\ \A k \in 1..Len(out) : out[k] \in {getPrompt, "  -> "}
    /\ (pc = "prompt" /\ sqlStr = TrimSuffix(L_useMydbSemi, Semicolon)) =>
          /\ Len(dbCalls) = 1
          /\ dbCalls[1].text = "USE [mydb]"

(***************************************************************************)
(* Column widths while the rows are streamed                               *)
(***************************************************************************)
Clamp(n, lo, hi) == IF n < lo THEN lo ELSE IF n > hi THEN hi ELSE n

\* C15: every column width is within [4, 50] at all times, starts at the
\* name's length clamped to that range, never decreases, and once it is 50
\* it never changes.
C15_WidthsBoundedMonotone ==
    /\ [](\A i \in 1..Len(colWidths) :
             /\ colWidths[i] >= 4
             /\ colWidths[i] <= 50
             /\ (pc = "stream" /\ pos = 0) =>
                    colWidths[i] = Clamp(Len(cursor.cols[i]), 4, 50))
    /\ [][ (pc \in {"stream", "render"}) =>
              /\ Len(colWidths') = Len(colWidths)
              /\ \A i \in 1..Len(colWidths) :
                    /\ colWidths'[i] >= colWidths[i]
                    /\ colWidths[i] = 50 => colWidths'[i] = 50
         ]_vars

C15_Witness ==
    /\ pc = "render"
    /\ cursor.cols = <<ColName, ColWide>>
    /\ pos = 2
    /\ cursor.rows[1] = <<CellText(MaxWidth), CellNull>>
    /\ cursor.rows[2] = <<CellInt, CellText(MaxWidth + 1)>>
    /\ colWidths = <<50, 50>>

(***************************************************************************)
(* What changes the session's settings                                     *)
(***************************************************************************)
\* the statement being dispatched is timing
DispatchesTiming == pc = "dispatch" /\ ToLower(sqlStr) = K_timing

\* the statement being dispatched is use followed by a name
DispatchesUseName ==
    /\ pc = "dispatch"
    /\ Len(Fields(sqlStr)) >= 2
    /\ ToLower(Fields(sqlStr)[1]) = K_use

\* C16: the timing flag changes only when timing is handled, and then it
\* flips; the database changes only when use <name> is handled, to that
\* name; the row cap never changes; every other step (reading, empty
\* batches, queries, non-queries, failures, help, clear, exit) leaves all
\* three unchanged.
C16_SettingsFrame ==
    [][ /\ maxRows' = maxRows
        /\ DispatchesTiming => timingEnabled' = ~timingEnabled
        /\ ~DispatchesTiming => timingEnabled' = timingEnabled
        /\ (database' # database) =>
              DispatchesUseName /\ database' = Fields(sqlStr)[2]
        /\ ~(DispatchesTiming \/ DispatchesUseName) =>
              UNCHANGED <<database, timingEnabled, maxRows>>
      ]_vars

C16_Witness ==
    /\ pc = "prompt"
    /\ sqlStr = K_timing
    /\ timingEnabled
    /\ database = <<"m", "y", "d", "b">>
    /\ maxRows = 1000

(***************************************************************************)
(* The cursor's release                                                    *)
(***************************************************************************)
\* how the row loop of displayTable was left
ExitPath ==
    IF Len(allRows) >= maxRows THEN "cap"
    ELSE IF cursor.err # "" THEN "error"
    ELSE "exhausted"

\* C17: the cursor is released on every exit path of the render step
\* (rows exhausted, stop at the row cap, streaming error): no cursor is
\* open when the session is back at the prompt.
C17_CursorReleased ==
    /\ pc = "prompt" => ~rowsOpen
    /\ (pc = "render" /\ ExitPath # "cap") => ~rowsOpen

C17_Witness ==
    /\ pc = "prompt"
    /\ ExitPath = "cap"
    /\ pos < Len(cursor.rows)
    /\ ~rowsOpen

(***************************************************************************)
(* One statement at a time                                                 *)
(***************************************************************************)
\* the session is between statements: prompting, reading or classifying
BetweenStatements == pc \in {"prompt", "read", "dispatch", "done"}

\* an execution is in flight
InFlight == ctx = "active" \/ rowsOpen

\* C18: the session loop is strictly sequential. At most one statement is
\* in flight, at most one executor call is made per statement, and while
\* the session prompts or reads no execution is in flight and nothing but
\* prompts has been written for the new statement: the previous execution
\* and all of its output are complete.
C18_Sequential ==
    /\ BetweenStatements => ~InFlight
    /\ InFlight => pc \in {"exec", "stream", "render"}
    /\ Len(dbCalls) <= 1
    /\ pc \in {"exec", "stream", "render"} => ctx = "active"
    /\ pc \in {"stream", "render"} => Len(dbCalls) = 1
    /\ pc \in {"read", "dispatch", "exec", "stream", "render"} =>
          /\ Len(out) >= 1
          /\ out[1] = getPrompt
          /\ \A k \in 2..Len(out) : out[k] = "  -> "

C18_Witness ==
    /\ pc = "prompt"
    /\ Len(dbCalls) = 1
    /\ dbCalls[1].op = "QueryContext"
    /\ Len(allRows) = 2
    /\ out[Len(out)] = "\n"
    /\ ~InFlight

(***************************************************************************)
(* The alignment of the rendered table                                     *)
(***************************************************************************)
\* the pieces written per table line: the opening piece, one piece per
\* column and the newline
PiecesPerLine == Len(cursor.cols) + 2

\* the lines of the table: three borders, the header and the data rows
TableLines == Len(allRows) + 4

IsBorderLine(j) == j \in {1, 3, TableLines}

\* the k-th piece of table line j in out (out[1] is the prompt)
PieceOf(j, k) == out[1 + (j - 1) * PiecesPerLine + k]

\* the length of table line j without its newline
RECURSIVE LineLenUpTo(_, _)
LineLenUpTo(j, k) ==
    IF k = 0 THEN 0 ELSE Len(PieceOf(j, k)) + LineLenUpTo(j, k - 1)

LineLen(j) == LineLenUpTo(j, PiecesPerLine - 1)

\* the sum over the columns of (final width + 3), plus 1
RECURSIVE WidthSum(_)
WidthSum(i) == IF i = 0 THEN 1 ELSE (colWidths[i] + 3) + WidthSum(i - 1)

TableWidth == WidthSum(Len(colWidths))

\* C19: every line of a rendered table has the same length, the sum of
\* (final width + 3) over the columns plus 1 (header and data rows carry
\* one more, the fixed trailing space), and no header name or cell is wider
\* than its column's final width.
C19_TableAligned ==
    pc = "prompt" =>
       /\ \A j \in 1..TableLines :
             /\ PieceOf(j, PiecesPerLine) = "\n"
             /\ LineLen(j) = TableWidth + (IF IsBorderLine(j) THEN 0 ELSE 1)
       /\ \A i \in 1..Len(cursor.cols) :
             /\ Len(cursor.cols[i]) <= colWidths[i]
             /\ \A r \in 1..Len(allRows) : Len(allRows[r][i]) <= colWidths[i]

(***************************************************************************)
(* A use that fails at the database                                        *)
(***************************************************************************)
\* the use of this statement has failed at the database
UseFailed ==
    /\ pc = "prompt"
    /\ Len(dbCalls) = 1
    /\ dbCalls[1].op = "Exec"
    /\ dbCalls[1].err # ""

\* C20: when use <name> fails at the database the current database is
\* unchanged, one error line is written and the session is back at the
\* prompt, which is the same prompt as before; the database becomes <name>
\* only when the switch has succeeded.
C20_FailedUseKeepsDatabase ==
    [][ /\ DispatchesUseName =>
              /\ pc' = "prompt"
              /\ Len(dbCalls') = 1
              /\ dbCalls'[1].op = "Exec"
              /\ IF dbCalls'[1].err # ""
                 THEN /\ database' = database
                      /\ out' = Append(out, "Error: " \o dbCalls'[1].err \o "\n")
                 ELSE /\ database' = Fields(sqlStr)[2]
                      /\ out' = Append(out, "Changed database context to '"
                                       \o Text(Fields(sqlStr)[2]) \o "'.\n")
        /\ UseFailed => (pc' = "read" /\ out' = <<out[1]>>)
      ]_vars

C20_Witness ==
    /\ UseFailed
    /\ database = InitialDatabase
    /\ out[Len(out)] = "Error: " \o DeadlineExceeded \o "\n"

=============================================================================
